---- MODULE Spec2Model ----
(***************************************************************************)
(* Reverse-mode scalar autodiff engine (src/src/engine.rs).                *)
(*                                                                         *)
(* A node is an Rc<RefCell<_Value>>; nodes are numbered 1..Len(data) in    *)
(* construction order and the fields of _Value are kept as sequences       *)
(* indexed by that number.  f64 values are modelled by integers: every     *)
(* number that occurs is a small integer, which f64 represents exactly.    *)
(***************************************************************************)
EXTENDS Integers, Sequences, FiniteSets, TLC

\* Spec builds graphs of at most MaxNodes nodes, WideSpec of one node more.
MaxNodes == 4

\* SumSpec sums sequences of at most MaxLen elements.
MaxLen == 3

\* the numbers leaves are made from (SumSpec adds 0, the value sum starts from)
LeafValues == {1, 2}

None == "none"

VARIABLES
    data,       \* _Value.data   : node -> number
    grad,       \* _Value.grad   : node -> number
    op,         \* _Value._op    : node -> None, "+", "*"
    prev,       \* _Value._prev  : node -> sequence of operand nodes
    label,      \* _Value.label  : node -> None or a string
    pc,         \* "idle", "running" (inside backward), "done" (backward
                \*   has returned), "panicked"
    root,       \* the node backward was called on (0: none yet)
    visited,    \* the HashSet<Value> of backward: entries [node, hash]
    stack,      \* the active _backward frames: [node, idx of the next child]
    cur,        \* the node the pending _backward call is about (0: none)
    order,      \* nodes whose propagate rule ran, in order (this pass)
    skips,      \* _backward calls that returned at the contains test:
                \*   [node, self]: self = that very node was in the set
    pass,       \* how many times backward has been called
    zeroed,     \* zero_grad was called on every node under root since
    after1,     \* [root, grad] as the first backward call left them
    sumcall     \* the last sum: [seq |-> its items, out |-> its result]

vars == <<data, grad, op, prev, label, pc, root, visited, stack, cur, order,
          skips, pass, zeroed, after1, sumcall>>

run == <<pc, root, visited, stack, cur, order, skips, pass, zeroed, after1>>

graph == <<data, op, prev, label>>

Nodes == 1..Len(data)

(***************************************************************************)
(* Construction.  The constructors are functions of the heap, the record   *)
(* of the five field sequences; the node a constructor returns is the last *)
(* one of the heap it yields.                                              *)
(***************************************************************************)

Heap == [data |-> data, grad |-> grad, op |-> op, prev |-> prev, label |-> label]

SetHeap(h) ==
    /\ data' = h.data
    /\ grad' = h.grad
    /\ op' = h.op
    /\ prev' = h.prev
    /\ label' = h.label

\* _Value::new + Value::new: the fresh node is appended, its grad is 0.0
new(h, d, o, p) ==
    [data |-> Append(h.data, d),
     grad |-> Append(h.grad, 0),
     op |-> Append(h.op, o),
     prev |-> Append(h.prev, p),
     label |-> Append(h.label, None)]

\* impl From<T> for Value: a leaf
from(h, v) == new(h, v, None, <<>>)

\* fn add(a, b), without its closure (PropagateAdd below)
add(h, a, b) == new(h, h.data[a] + h.data[b], "+", <<a, b>>)

\* fn mul(a, b), without its closure (PropagateMul below)
mul(h, a, b) == new(h, h.data[a] * h.data[b], "*", <<a, b>>)

\* `sum + val.unwrap()` on owned values: no impl Add<Value> for Value is in
\* the sources at hand; it is taken to be add, as the design text says
\* ("running fold via repeated add").
AddOwned(h, a, b) == add(h, a, b)

\* the first value of the accumulator of sum: Value::from(0.0)
SumStart == 0

RECURSIVE SumLoop(_, _, _, _)
\* the loop of sum: acc is the node `sum`, i the next item of the iterator
SumLoop(h, acc, seq, i) ==
    IF i > Len(seq) THEN [heap |-> h, out |-> acc]
    ELSE LET h2 == AddOwned(h, acc, seq[i])
         IN  SumLoop(h2, Len(h2.data), seq, i + 1)

\* sum with its loop starting one item late
sum_dropfirst(h, seq) ==
    LET h0 == from(h, SumStart)
    IN  SumLoop(h0, Len(h0.data), seq, 2)

\* impl Sum for Value
sum(h, seq) ==
    LET h0 == from(h, SumStart)
    IN  SumLoop(h0, Len(h0.data), seq, 1)

From(v) ==
    /\ SetHeap(from(Heap, v))
    /\ UNCHANGED <<run, sumcall>>

Add(a, b) ==
    /\ SetHeap(add(Heap, a, b))
    /\ UNCHANGED <<run, sumcall>>

Mul(a, b) ==
    /\ SetHeap(mul(Heap, a, b))
    /\ UNCHANGED <<run, sumcall>>

Sum(seq) ==
    LET r == sum(Heap, seq) IN
    /\ SetHeap(r.heap)
    /\ sumcall' = [seq |-> seq, out |-> r.out]
    /\ UNCHANGED run

(***************************************************************************)
(* Hash and equality of Value: both go through the RefCell to the fields   *)
(* of _Value, operands included (recursively).                             *)
(***************************************************************************)

RECURSIVE Key(_)
\* impl Hash for _Value / impl Hash for Value: what is fed to the hasher.
\* The hasher is taken to be injective on it.
Key(n) ==
    <<data[n], grad[n], label[n], op[n],
      [i \in 1..Len(prev[n]) |-> Key(prev[n][i])]>>

RECURSIVE Eq(_, _)
\* impl PartialEq for _Value, reached through the derived PartialEq of Value
Eq(a, b) ==
    /\ data[a] = data[b]
    /\ grad[a] = grad[b]
    /\ label[a] = label[b]
    /\ op[a] = op[b]
    /\ Len(prev[a]) = Len(prev[b])
    /\ \A i \in 1..Len(prev[a]) : Eq(prev[a][i], prev[b][i])

\* visited.contains(&value): the possible answers.  An entry is found for
\* sure when it was stored under the hash the key has now and compares
\* equal.  An entry that compares equal but was stored under another hash
\* (its fields changed while it was in the set) may or may not be found:
\* std leaves the outcome unspecified, and it depends on the random hasher
\* keys of the set and on whether the set has rehashed its entries on
\* growing.  (Gradients only grow during a call, so a changed entry never
\* returns to the hash it was stored under.)
Contains(n) ==
    IF \E e \in visited : e.hash = Key(n) /\ Eq(e.node, n) THEN {TRUE}
    ELSE IF \E e \in visited : Eq(e.node, n) THEN {TRUE, FALSE}
    ELSE {FALSE}

\* visited.insert(value.clone()): the entry keeps the hash of that moment
Insert(n) == visited \cup {[node |-> n, hash |-> Key(n)]}

(***************************************************************************)
(* Propagate rules                                                         *)
(***************************************************************************)

\* the closure of add with = in place of +=
PropagateAdd_overwrite(g, n) ==
    LET first == prev[n][1]
        second == prev[n][2]
        g1 == [g EXCEPT ![first] = g[n]]
    IN  [g1 EXCEPT ![second] = g1[n]]

\* the closure of add: first.grad += value.grad; second.grad += value.grad
PropagateAdd(g, n) ==
    LET first == prev[n][1]
        second == prev[n][2]
        g1 == [g EXCEPT ![first] = @ + g[n]]
    IN  [g1 EXCEPT ![second] = @ + g1[n]]

\* the closure of mul: first.grad += second.data * value.grad;
\*                     second.grad += first.data * value.grad
PropagateMul(g, n) ==
    LET first == prev[n][1]
        second == prev[n][2]
        g1 == [g EXCEPT ![first] = @ + data[second] * g[n]]
    IN  [g1 EXCEPT ![second] = @ + data[first] * g1[n]]

\* propagate_fn(&borrowed_value), for whichever closure the node holds
Propagate(g, n) ==
    IF op[n] = "+" THEN PropagateAdd(g, n)
    ELSE IF op[n] = "*" THEN PropagateMul(g, n)
    ELSE g

\* Both closures take _prev[0].borrow_mut() and then _prev[1].borrow_mut():
\* when the two operands are one node, the second borrow_mut panics
\* (BorrowMutError) before any gradient is written.
BorrowPanics(n) ==
    /\ op[n] # None
    /\ prev[n][1] = prev[n][2]

\* Value::zero_grad
zero_grad(g, n) == [g EXCEPT ![n] = 0]

(***************************************************************************)
(* backward                                                                *)
(***************************************************************************)

Range(s) == {s[i] : i \in 1..Len(s)}

RECURSIVE Reach(_)
\* the nodes reachable from r through operand links, r included
Reach(r) == {r} \cup UNION {Reach(p) : p \in Range(prev[r])}

RECURSIVE Unwind_stuck(_)
\* the for loop never moving on to the next operand
Unwind_stuck(stk) ==
    IF stk = <<>> THEN [stack |-> <<>>, cur |-> 0, pc |-> "done"]
    ELSE LET f == stk[Len(stk)] IN
         IF f.idx > Len(prev[f.node])
         THEN Unwind_stuck(SubSeq(stk, 1, Len(stk) - 1))
         ELSE [stack |-> stk, cur |-> prev[f.node][f.idx], pc |-> "running"]

RECURSIVE Unwind(_)
\* The for loop over _prev of the innermost frame: the next recursive call,
\* or the return to the caller when the operands are exhausted.
Unwind(stk) ==
    IF stk = <<>> THEN [stack |-> <<>>, cur |-> 0, pc |-> "done"]
    ELSE LET f == stk[Len(stk)] IN
         IF f.idx > Len(prev[f.node])
         THEN Unwind(SubSeq(stk, 1, Len(stk) - 1))
         ELSE [stack |-> [stk EXCEPT ![Len(stk)].idx = f.idx + 1],
               cur |-> prev[f.node][f.idx],
               pc |-> "running"]

\* backward without the seed self.borrow_mut().grad = 1.0
backward_noseed(r) ==
    /\ pc \in {"idle", "done"}
    /\ pass < 2
    /\ pass = 1 => r = root
    /\ root' = r
    /\ visited' = {}
    /\ stack' = <<>>
    /\ cur' = r
    /\ order' = <<>>
    /\ skips' = {}
    /\ pc' = "running"
    /\ pass' = pass + 1
    /\ after1' = IF pass = 1 /\ ~zeroed
                 THEN [root |-> root, grad |-> grad] ELSE after1
    /\ UNCHANGED <<graph, grad, zeroed, sumcall>>

\* Value::backward up to the first _backward call: a fresh set, grad = 1.0.
\* It is called on a graph at rest; a second call is on the same root, and
\* there is no third.
backward(r) ==
    /\ pc \in {"idle", "done"}
    /\ pass < 2
    /\ pass = 1 => r = root
    /\ grad' = [grad EXCEPT ![r] = 1]
    /\ root' = r
    /\ visited' = {}
    /\ stack' = <<>>
    /\ cur' = r
    /\ order' = <<>>
    /\ skips' = {}
    /\ pc' = "running"
    /\ pass' = pass + 1
    /\ after1' = IF pass = 1 /\ ~zeroed
                 THEN [root |-> root, grad |-> grad] ELSE after1
    /\ UNCHANGED <<graph, zeroed, sumcall>>

\* _backward(visited, value) when visited.contains(&value): nothing happens
Skip ==
    /\ pc = "running"
    /\ TRUE \in Contains(cur)
    /\ skips' = skips \cup
          {[node |-> cur, self |-> \E e \in visited : e.node = cur]}
    /\ LET u == Unwind(stack) IN
         /\ stack' = u.stack
         /\ cur' = u.cur
         /\ pc' = u.pc
    /\ UNCHANGED <<graph, grad, root, visited, order, pass, zeroed, after1,
                   sumcall>>

\* _backward(visited, value) otherwise: insert, propagate, then the operands
Visit ==
    /\ pc = "running"
    /\ FALSE \in Contains(cur)
    /\ ~BorrowPanics(cur)
    /\ visited' = Insert(cur)
    /\ grad' = Propagate(grad, cur)
    /\ order' = IF op[cur] # None THEN Append(order, cur) ELSE order
    /\ LET u == Unwind(Append(stack, [node |-> cur, idx |-> 1])) IN
         /\ stack' = u.stack
         /\ cur' = u.cur
         /\ pc' = u.pc
    /\ UNCHANGED <<graph, root, skips, pass, zeroed, after1, sumcall>>

\* _backward(visited, value) when the propagate rule panics: the call
\* unwinds and backward never returns
Panic ==
    /\ pc = "running"
    /\ FALSE \in Contains(cur)
    /\ BorrowPanics(cur)
    /\ visited' = Insert(cur)
    /\ pc' = "panicked"
    /\ UNCHANGED <<graph, grad, root, stack, cur, order, skips, pass, zeroed,
                   after1, sumcall>>

RECURSIVE ZeroAll(_, _)
ZeroAll(g, S) ==
    IF S = {} THEN g
    ELSE LET n == CHOOSE x \in S : TRUE
         IN  ZeroAll(zero_grad(g, n), S \ {n})

\* the client resets the graph between two backward calls: zero_grad on
\* every node reachable from the root
ZeroGrads ==
    /\ pc = "done"
    /\ pass = 1
    /\ ~zeroed
    /\ after1' = [root |-> root, grad |-> grad]
    /\ grad' = ZeroAll(grad, Reach(root))
    /\ zeroed' = TRUE
    /\ pc' = "idle"
    /\ UNCHANGED <<graph, root, visited, stack, cur, order, skips, pass,
                   sumcall>>

(***************************************************************************)
(* Specifications                                                          *)
(***************************************************************************)

Init ==
    /\ data = <<>>
    /\ grad = <<>>
    /\ op = <<>>
    /\ prev = <<>>
    /\ label = <<>>
    /\ pc = "idle"
    /\ root = 0
    /\ visited = {}
    /\ stack = <<>>
    /\ cur = 0
    /\ order = <<>>
    /\ skips = {}
    /\ pass = 0
    /\ zeroed = FALSE
    /\ after1 = [root |-> 0, grad |-> <<>>]
    /\ sumcall = [seq |-> <<>>, out |-> 0]

\* the graph is built before backward is called, up to lim nodes
Room(lim) == pc = "idle" /\ pass = 0 /\ Len(data) < lim

Build(lim) ==
    /\ Room(lim)
    /\ \/ \E v \in LeafValues : From(v)
       \/ \E a \in Nodes, b \in Nodes : Add(a, b)
       \/ \E a \in Nodes, b \in Nodes : Mul(a, b)

Step == Skip \/ Visit \/ Panic

Rerun == ZeroGrads \/ \E r \in Nodes : backward(r)

Next == Build(MaxNodes) \/ Rerun \/ Step

Spec == Init /\ [][Next]_vars

\* One backward call, on the node built last: what a call does depends only
\* on the nodes under its root, all of them built before it.
OnceNext ==
    \/ Build(MaxNodes)
    \/ \E r \in Nodes : r = Len(data) /\ pass = 0 /\ backward(r)
    \/ Step

\* Inside backward nothing else runs: a pending _backward call is made.
FairSpec == Init /\ [][OnceNext]_vars /\ WF_vars(Step)

WideNext == Build(MaxNodes + 1) \/ Rerun \/ Step

WideSpec == Init /\ [][WideNext]_vars

\* sum: leaves, then one sum over distinct ones of them, then backward
InjSeqs(S, n) ==
    {s \in UNION {[1..k -> S] : k \in 0..n} :
        \A i \in 1..Len(s), j \in 1..Len(s) : s[i] = s[j] => i = j}

SumNext ==
    \/ Room(MaxLen) /\ sumcall.out = 0
         /\ \E v \in LeafValues \cup {SumStart} : From(v)
    \/ pc = "idle" /\ sumcall.out = 0
         /\ \E seq \in InjSeqs(Nodes, MaxLen) : Sum(seq)
    \/ \E r \in Nodes : backward(r)
    \/ Skip
    \/ Visit

SumSpec == Init /\ [][SumNext]_vars

(***************************************************************************)
(* Properties                                                              *)
(***************************************************************************)

Ended == pc \in {"done", "panicked"}

\* the nodes under r that have n as an operand
Consumers(r, n) == {m \in Reach(r) : n \in Range(prev[m])}

RECURSIVE Deriv(_, _)
\* d m.data / d n.data: the sum over the operand paths from m to n of the
\* products of the local derivatives along the path
Deriv(m, n) ==
    IF m = n THEN 1
    ELSE IF op[m] = "+" THEN Deriv(prev[m][1], n) + Deriv(prev[m][2], n)
    ELSE IF op[m] = "*" THEN data[prev[m][2]] * Deriv(prev[m][1], n)
                             + data[prev[m][1]] * Deriv(prev[m][2], n)
    ELSE 0

\* C1: when backward returns on a graph whose gradients were all 0, every
\* node under the root holds the derivative of the root's value with
\* respect to its own.  It is stated of the calls in which the visited
\* test never cut a _backward call short, so that what the set answers
\* (C4, C9) plays no part.
C1_GradientIsDerivative ==
    (pc = "done" /\ pass = 1 /\ skips = {}) =>
        \A n \in Reach(root) : grad[n] = Deriv(root, n)

\* C2: a propagate rule runs only after the rule of every node under the
\* root that consumes the node has run.
C2_ConsumersFirst ==
    \A i \in 1..Len(order) :
        \A m \in Consumers(root, order[i]) :
            \E j \in 1..(i - 1) : order[j] = m

\* C3: backward on y = add(x, x), x a leaf with gradient 0, returns and
\* leaves x.grad = 2.
C3_AddSelf ==
    \A x \in Nodes :
        (/\ Ended
         /\ pass = 1
         /\ op[root] = "+"
         /\ prev[root] = <<x, x>>
         /\ op[x] = None)
        => (pc = "done" /\ grad[x] = 2)

\* C4: a _backward call returns at the visited test only when the very
\* node it was called on is in the set.
C4_SkipOnlySelf == \A s \in skips : s.self

\* C5 as stated: after a second backward on the same root with no
\* zero_grad in between, every node under the root other than the root
\* holds twice the gradient the first call left.
C5_AllDouble ==
    (pc = "done" /\ pass = 2 /\ ~zeroed) =>
        \A n \in Reach(root) \ {root} : grad[n] = 2 * after1.grad[n]

\* the operands of r that no other node under r consumes
DirectOnly(r) == {n \in Range(prev[r]) : Consumers(r, n) = {r}}

\* C5 amended: after a second backward on the same root with no zero_grad
\* in between, every operand of the root that no other node under the root
\* consumes holds twice the gradient the first call left.
C5_DirectOperandsDouble ==
    (pc = "done" /\ pass = 2 /\ ~zeroed) =>
        \A n \in DirectOnly(root) : grad[n] = 2 * after1.grad[n]

C5_Witness ==
    /\ pc = "done" /\ pass = 2 /\ ~zeroed
    /\ \E n \in DirectOnly(root) : op[n] # None /\ grad[n] = 2

\* C6: backward, zero_grad on every node under the root, backward again on
\* the same root: every node under the root holds the gradient the first
\* call left.
C6_ZeroGradReproduces ==
    (pc = "done" /\ pass = 2 /\ zeroed) =>
        \A n \in Reach(root) : grad[n] = after1.grad[n]

RECURSIVE Total(_, _)
Total(seq, i) == IF i > Len(seq) THEN 0 ELSE data[seq[i]] + Total(seq, i + 1)

\* C7: sum of no items is a leaf with value 0, gradient 0 and no operands;
\* sum of distinct leaves with gradient 0 has the sum of their values, and
\* backward on it leaves gradient 1 in each of them.
C7_Sum ==
    LET seq == sumcall.seq
        out == sumcall.out
    IN  out # 0 =>
          /\ (seq = <<>> /\ pass = 0) =>
                 data[out] = 0 /\ grad[out] = 0 /\ prev[out] = <<>>
                               /\ op[out] = None
          /\ seq # <<>> => data[out] = Total(seq, 1)
          /\ (seq # <<>> /\ pc = "done" /\ pass = 1 /\ root = out) =>
                 \A i \in 1..Len(seq) : grad[seq[i]] = 1

C7_Witness ==
    /\ pc = "done" /\ pass = 1 /\ root = sumcall.out
    /\ Len(sumcall.seq) = MaxLen
    /\ \E i \in 1..MaxLen : data[sumcall.seq[i]] = SumStart

\* C8: a backward call ends: it returns, or it unwinds with the panic of a
\* propagate rule.
C8_Terminates == (pc = "running") ~> Ended

C8_Witness ==
    /\ pc = "done"
    /\ \E n \in Reach(root) : Cardinality(Consumers(root, n)) >= 2

\* C9: within one backward call no propagate rule runs twice.
C9_PropagateOnce ==
    \A i \in 1..Len(order), j \in 1..Len(order) : order[i] = order[j] => i = j

\* C10: a step of backward leaves every data, _op, _prev and label as it
\* is, and the gradient of every node not under the root; when backward
\* returns the root's gradient is 1.
C10_Frame ==
    /\ [][(pc = "running" \/ pc' = "running") =>
            /\ graph' = graph
            /\ \A n \in Nodes \ Reach(root') : grad'[n] = grad[n]]_vars
    /\ [](pc = "done" => grad[root] = 1)

C10_Witness ==
    /\ pc = "done"
    /\ Nodes \ Reach(root) # {}
    /\ \E n \in Reach(root) \ {root} : grad[n] # 0

====
